---- MODULE Spec2Model ----
(***************************************************************************)
(* A model of capice_updatr's utilities.py: order_vcf,                     *)
(* merge_vep_variant_files and SimpleVCFParser (read / export).            *)
(*                                                                         *)
(* Text is a sequence of one-character strings.  A cell of a table is a    *)
(* tagged value: an integer (a cell of an int64 column) or a string (a     *)
(* cell of an object column).  A table is a pandas DataFrame: its row      *)
(* labels (index), its column names in order, and its rows, each a         *)
(* function from column name to cell.                                      *)
(***************************************************************************)
EXTENDS Integers, Sequences, FiniteSets, TLC

VARIABLES
    vcf,        \* the caller's DataFrame handed to order_vcf (mutated in place)
    vcf_in,     \* history: that DataFrame as it was before the call
    order_ret,  \* "none" before the call, then "ok" or the exception raised
    vep_dataframe,      \* the caller's annotation DataFrame
    variant_dataframe,  \* the caller's clinical DataFrame
    vep_in,             \* history: vep_dataframe before the call
    variant_in,         \* history: variant_dataframe before the call
    merge,              \* the DataFrame merge_vep_variant_files returned
    merge_ret,          \* "none" before the call, then "ok" or the exception raised
    header,     \* SimpleVCFParser.header : the list of header lines
    data,       \* SimpleVCFParser.data : the DataFrame
    files,      \* the file system: path -> decompressed text of the gzip file there
    dirs,       \* the file system: the directories that exist
    io_ret,     \* how the last constructor or export call ended ("none" at first)
    last        \* history: the last call and the state it was made in

orderVars == <<vcf, vcf_in, order_ret>>
mergeVars == <<vep_dataframe, variant_dataframe, vep_in, variant_in, merge, merge_ret>>
ioVars == <<header, data, files, dirs, io_ret, last>>
vars == <<orderVars, mergeVars, ioVars>>

-----------------------------------------------------------------------------
(* Text and cells *)

Digits == <<"0", "1", "2", "3", "4", "5", "6", "7", "8", "9">>

IsDigit(c) == \E i \in 1..Len(Digits) : Digits[i] = c

DigitVal(c) == (CHOOSE i \in 1..Len(Digits) : Digits[i] = c) - 1

\* The code point order of the characters the model uses (ASCII).
CodePoints == <<"\t", "\n", "#", "%", "-", ".", "0", "1", "2", "3", "4", "5", "6", "7",
                "8", "9", "A", "B", "C", "G", "H", "L", "M", "N", "O", "P", "R",
                "S", "T", "U", "V", "X", "Y", "_", "a", "c", "h", "i", "l",
                "m", "n", "r", "s", "u">>

Ord(c) == CHOOSE i \in 1..Len(CodePoints) : CodePoints[i] = c

\* Python's str < str: lexicographic by code point, a proper prefix first.
RECURSIVE StrLess(_, _)
StrLess(a, b) ==
    IF b = <<>> THEN FALSE
    ELSE IF a = <<>> THEN TRUE
    ELSE IF Head(a) = Head(b) THEN StrLess(Tail(a), Tail(b))
    ELSE Ord(Head(a)) < Ord(Head(b))

IntCell(n) == [t |-> "int", n |-> n, s |-> <<>>]
StrCell(s) == [t |-> "str", n |-> 0, s |-> s]

\* str(n) for n >= 0
RECURSIVE NatToStr(_)
NatToStr(n) ==
    IF n < 10 THEN <<Digits[n + 1]>>
    ELSE Append(NatToStr(n \div 10), Digits[(n % 10) + 1])

\* the value of a non-empty run of digits
RECURSIVE DigitsToNat(_)
DigitsToNat(s) ==
    IF s = <<>> THEN 0
    ELSE 10 * DigitsToNat(SubSeq(s, 1, Len(s) - 1)) + DigitVal(s[Len(s)])

AllDigits(s) == s # <<>> /\ \A i \in 1..Len(s) : IsDigit(s[i])

\* int(x) succeeds on an int and on a string that is an optionally signed
\* run of digits; anything else is "invalid literal for int()".
CanInt(cell) ==
    \/ cell.t = "int"
    \/ AllDigits(cell.s)
    \/ (Len(cell.s) > 1 /\ Head(cell.s) = "-" /\ AllDigits(Tail(cell.s)))

ToInt(cell) ==
    IF cell.t = "int" THEN cell.n
    ELSE IF Head(cell.s) = "-" THEN 0 - DigitsToNat(Tail(cell.s))
    ELSE DigitsToNat(cell.s)

\* the order pandas sorts the values of one column in: numbers numerically,
\* strings by code point
CellLess(a, b) ==
    IF a.t = "int" /\ b.t = "int" THEN a.n < b.n
    ELSE IF a.t = "str" /\ b.t = "str" THEN StrLess(a.s, b.s)
    ELSE a.t = "int"

-----------------------------------------------------------------------------
(* DataFrame helpers *)

Table(index, columns, rows) == [index |-> index, columns |-> columns, rows |-> rows]

NRows(df) == Len(df.rows)

Range(s) == {s[i] : i \in 1..Len(s)}

RECURSIVE SeqWithout(_, _)
SeqWithout(s, drop) ==
    IF s = <<>> THEN <<>>
    ELSE IF Head(s) \in drop THEN SeqWithout(Tail(s), drop)
    ELSE <<Head(s)>> \o SeqWithout(Tail(s), drop)

\* df[name] = values : a new column goes last, an existing one is overwritten
SetColumn(df, name, values) ==
    Table(df.index,
          IF name \in Range(df.columns) THEN df.columns ELSE Append(df.columns, name),
          [i \in 1..NRows(df) |->
              [c \in (DOMAIN df.rows[i]) \cup {name} |->
                  IF c = name THEN values[i] ELSE df.rows[i][c]]])

\* df.drop(columns=names)
DropColumns(df, names) ==
    Table(df.index,
          SeqWithout(df.columns, names),
          [i \in 1..NRows(df) |->
              [c \in (DOMAIN df.rows[i]) \ names |-> df.rows[i][c]]])

\* df[name] == cell and df[name] != cell : a boolean per row
EqMask(df, name, cell) == [i \in 1..NRows(df) |-> df.rows[i][name] = cell]

NeMask(df, name, cell) == [i \in 1..NRows(df) |-> df.rows[i][name] # cell]

\* df[mask].index : the labels of the rows the mask selects
LabelsWhere(df, mask) == {df.index[i] : i \in {j \in 1..NRows(df) : mask[j]}}

\* df.loc[labels, name] = value : every row carrying one of the labels
LocAssign(df, labels, name, value) ==
    Table(df.index, df.columns,
          [i \in 1..NRows(df) |->
              IF df.index[i] \in labels
              THEN [df.rows[i] EXCEPT ![name] = value]
              ELSE df.rows[i]])

\* the rows (and their labels) at the given positions, in that order
Take(df, positions) ==
    Table([k \in 1..Len(positions) |-> df.index[positions[k]]],
          df.columns,
          [k \in 1..Len(positions) |-> df.rows[positions[k]]])

-----------------------------------------------------------------------------
(* order_vcf *)

\* by=['order', 'POS'] : first key then second key
OrderPosLess(r1, r2) ==
    \/ CellLess(r1["order"], r2["order"])
    \/ (r1["order"] = r2["order"] /\ CellLess(r1["POS"], r2["POS"]))

\* a sort that is not stable: insertion in front of the elements with an
\* equal key
RECURSIVE InsertUnstable(_, _, _)
InsertUnstable(df, sorted, p) ==
    IF sorted = <<>> THEN <<p>>
    ELSE IF ~OrderPosLess(df.rows[Head(sorted)], df.rows[p])
         THEN <<p>> \o sorted
         ELSE <<Head(sorted)>> \o InsertUnstable(df, Tail(sorted), p)

\* insertion behind every element that is not greater: equal keys keep
\* their input order
RECURSIVE InsertStable(_, _, _)
InsertStable(df, sorted, p) ==
    IF sorted = <<>> THEN <<p>>
    ELSE IF OrderPosLess(df.rows[p], df.rows[Head(sorted)])
         THEN <<p>> \o sorted
         ELSE <<Head(sorted)>> \o InsertStable(df, Tail(sorted), p)

RECURSIVE SortPositions(_, _)
SortPositions(df, n) ==
    IF n = 0 THEN <<>>
    ELSE InsertStable(df, SortPositions(df, n - 1), n)

\* vcf.sort_values(by=['order', 'POS'], inplace=True)
sort_values(df) == Take(df, SortPositions(df, NRows(df)))

RankX == 23
RankY == 24
RankMT == 25

\* lines 21-24 with Y and MT given each other's rank
WithOrderColumn_YMTSwapped(df) ==
    LET t1 == SetColumn(df, "order", [i \in 1..NRows(df) |-> df.rows[i]["#CHROM"]])
        t2 == LocAssign(t1, LabelsWhere(t1, EqMask(t1, "#CHROM", StrCell(<<"X">>))), "order", IntCell(RankX))
        t3 == LocAssign(t2, LabelsWhere(t2, EqMask(t2, "#CHROM", StrCell(<<"Y">>))), "order", IntCell(RankMT))
    IN  LocAssign(t3, LabelsWhere(t3, EqMask(t3, "#CHROM", StrCell(<<"M", "T">>))), "order", IntCell(RankY))

\* lines 21-24
WithOrderColumn(df) ==
    LET t1 == SetColumn(df, "order", [i \in 1..NRows(df) |-> df.rows[i]["#CHROM"]])
        t2 == LocAssign(t1, LabelsWhere(t1, EqMask(t1, "#CHROM", StrCell(<<"X">>))), "order", IntCell(RankX))
        t3 == LocAssign(t2, LabelsWhere(t2, EqMask(t2, "#CHROM", StrCell(<<"Y">>))), "order", IntCell(RankY))
    IN  LocAssign(t3, LabelsWhere(t3, EqMask(t3, "#CHROM", StrCell(<<"M", "T">>))), "order", IntCell(RankMT))

\* line 25
AstypeIntFails(df) == \E i \in 1..NRows(df) : ~CanInt(df.rows[i]["order"])

AstypeInt(df) ==
    SetColumn(df, "order", [i \in 1..NRows(df) |-> IntCell(ToInt(df.rows[i]["order"]))])

\* lines 26-28
SortDropReindex(df) ==
    LET sorted == sort_values(df)
        dropped == DropColumns(sorted, {"order"})
    IN  Table([i \in 1..NRows(dropped) |-> i - 1], dropped.columns, dropped.rows)

\* The whole function: the frame it leaves behind and how it ended.
order_vcf(df) ==
    LET t == WithOrderColumn(df)
    IN  IF AstypeIntFails(t)
        THEN [ret |-> "ValueError", vcf |-> t]
        ELSE [ret |-> "ok", vcf |-> SortDropReindex(AstypeInt(t))]

-----------------------------------------------------------------------------
(* The tables order_vcf is called on *)

MaxRows == 3

\* the chromosomes of the docstring: 1 to 22, X, Y and MT
ChromNames == [i \in 1..RankMT |->
                 IF i < RankX THEN NatToStr(i)
                 ELSE IF i = RankX THEN <<"X">>
                 ELSE IF i = RankY THEN <<"Y">>
                 ELSE <<"M", "T">>]

\* #CHROM values of the small tables: three of the chromosomes and three
\* values that are none of them
ChromSample == {<<"2">>, <<"1", "0">>, <<"X">>,
                <<"2", "3">>, <<"0">>, <<"c", "h", "r", "1">>}

PosSample == {9, 10}

\* a POS column is int64, or object when it was not parsed as numbers
PosCell(dtype, n) == IF dtype = "int64" THEN IntCell(n) ELSE StrCell(NatToStr(n))

\* a #CHROM column of numbers only is read as int64, any other as object
ChromDtype(chroms) ==
    IF \A i \in 1..Len(chroms) : AllDigits(chroms[i]) THEN "int64" ELSE "object"

ChromCell(dtype, s) == IF dtype = "int64" THEN IntCell(DigitsToNat(s)) ELSE StrCell(s)

\* row labels: the default RangeIndex, or distinct labels left over from
\* earlier filtering.  Labels are distinct in every frame this module
\* builds (read_csv, merge and line 28 all number the rows afresh); the
\* label-based steps (.loc, drop(index=...)) are modelled by label all the same.
IndexChoices(n) == {[i \in 1..n |-> i - 1], [i \in 1..n |-> 2 * (n - i) + 1]}

VcfColumns == <<"#CHROM", "POS", "ID">>

VcfRow(chrom, pos, id) ==
    [c \in Range(VcfColumns) |->
        IF c = "#CHROM" THEN chrom ELSE IF c = "POS" THEN pos ELSE IntCell(id)]

SmallTable(idx, chroms, poss, pd) ==
    Table(idx, VcfColumns,
          [i \in 1..Len(idx) |->
              VcfRow(ChromCell(ChromDtype(chroms), chroms[i]), PosCell(pd, poss[i]), i)])

\* orders of the 25 chromosomes: the sorted order with two places swapped,
\* every rotation of it, and its reverse
Swapped(i, j) == [k \in 1..RankMT |-> IF k = i THEN j ELSE IF k = j THEN i ELSE k]
Rotated(r) == [k \in 1..RankMT |-> ((k + r - 1) % RankMT) + 1]
Reversed == [k \in 1..RankMT |-> RankMT + 1 - k]

ChromOrders ==
    {Swapped(i, j) : i \in 1..RankMT, j \in 1..RankMT}
      \cup {Rotated(r) : r \in 1..RankMT} \cup {Reversed}

FullTable(idx, perm, pd) ==
    Table(idx, VcfColumns,
          [i \in 1..RankMT |-> VcfRow(StrCell(ChromNames[perm[i]]), PosCell(pd, perm[i]), i)])

Dtypes == {"int64", "object"}

EmptyTable == Table(<<>>, <<>>, <<>>)

\* no merge is part of the run
MergeIdle ==
    /\ vep_dataframe = EmptyTable
    /\ variant_dataframe = EmptyTable
    /\ vep_in = EmptyTable
    /\ variant_in = EmptyTable
    /\ merge = EmptyTable
    /\ merge_ret = "none"

NoFiles == [p \in {} |-> <<>>]

NoCall == [op |-> "none", path |-> <<>>, header |-> <<>>, data |-> EmptyTable,
           files |-> NoFiles, dirs |-> {}]

\* no parser is part of the run
IoIdle ==
    /\ header = <<>>
    /\ data = EmptyTable
    /\ files = NoFiles
    /\ dirs = {}
    /\ io_ret = "none"
    /\ last = NoCall

InitOrder ==
    /\ \/ \E n \in 0..MaxRows :
            \E idx \in IndexChoices(n), chroms \in [1..n -> ChromSample],
               poss \in [1..n -> PosSample], pd \in Dtypes :
                vcf = SmallTable(idx, chroms, poss, pd)
       \/ \E idx \in IndexChoices(RankMT), perm \in ChromOrders, pd \in Dtypes :
            vcf = FullTable(idx, perm, pd)
    /\ vcf_in = vcf
    /\ order_ret = "none"
    /\ MergeIdle
    /\ IoIdle

\* a call of order_vcf(vcf) on the table as it stands
OrderVcf ==
    /\ vcf_in' = vcf
    /\ vcf' = order_vcf(vcf).vcf
    /\ order_ret' = order_vcf(vcf).ret
    /\ UNCHANGED <<mergeVars, ioVars>>

NextOrder == OrderVcf

SpecOrder == InitOrder /\ [][NextOrder]_vars

-----------------------------------------------------------------------------
(* Properties of order_vcf *)

ChromOf(df) == [i \in 1..NRows(df) |-> df.rows[i]["#CHROM"]]

\* exactly one row for each of 1..22, X, Y, MT
OnePerChrom(df) ==
    /\ NRows(df) = RankMT
    /\ \A k \in 1..RankMT : \E i \in 1..NRows(df) : df.rows[i]["#CHROM"] = StrCell(ChromNames[k])

\* the call of order_vcf just made returned normally
Returned == order_ret = "ok"

\* where a row of the result stood in the table the call was given
InputPlace(row) == CHOOSE k \in 1..NRows(vcf_in) : vcf_in.rows[k] = row

\* a #CHROM value that names one of 1..22, X, Y, MT
ValidChrom(cell) ==
    IF cell.t = "int" THEN cell.n \in 1..(RankX - 1)
    ELSE \E k \in 1..RankMT : cell.s = ChromNames[k]

\* C1: a table with one row per chromosome 1..22, X, Y, MT, in any order,
\* comes back in the order 1, 2, ..., 22, X, Y, MT, with the row labels
\* renumbered 0..n-1 and the same columns.
C1_TotalOrder ==
    (order_ret # "none" /\ OnePerChrom(vcf_in)) =>
        /\ Returned
        /\ ChromOf(vcf) = [k \in 1..RankMT |-> StrCell(ChromNames[k])]
        /\ vcf.index = [k \in 1..RankMT |-> k - 1]
        /\ vcf.columns = vcf_in.columns
        /\ \A i \in 1..NRows(vcf) : DOMAIN vcf.rows[i] = Range(vcf_in.columns)

\* a one-per-chromosome table that was out of order, with labels that were
\* not 0..n-1, has been ordered
C1_Witness ==
    /\ Returned
    /\ OnePerChrom(vcf_in)
    /\ ChromOf(vcf_in) # ChromOf(vcf)
    /\ vcf_in.index # vcf.index

\* C2: after order_vcf, rows sharing a #CHROM stand in ascending order of
\* POS read as an integer, whatever the representation of POS.
C2_PosAscending ==
    Returned =>
        \A i, j \in 1..NRows(vcf) :
            (i < j /\ vcf.rows[i]["#CHROM"] = vcf.rows[j]["#CHROM"]) =>
                ToInt(vcf.rows[i]["POS"]) <= ToInt(vcf.rows[j]["POS"])

\* C3: two rows with identical #CHROM and identical POS keep their input
\* order.
C3_Stable ==
    Returned =>
        \A i, j \in 1..NRows(vcf) :
            (/\ i < j
             /\ vcf.rows[i]["#CHROM"] = vcf.rows[j]["#CHROM"]
             /\ vcf.rows[i]["POS"] = vcf.rows[j]["POS"]) =>
                InputPlace(vcf.rows[i]) < InputPlace(vcf.rows[j])

\* two rows with the same #CHROM and POS were separated in the input by a row
\* that sorts before them, and the table has been ordered
C3_Witness ==
    /\ Returned
    /\ vcf_in.rows # vcf.rows
    /\ \E i, j \in 1..NRows(vcf) :
        /\ i < j
        /\ vcf.rows[i]["#CHROM"] = vcf.rows[j]["#CHROM"]
        /\ vcf.rows[i]["POS"] = vcf.rows[j]["POS"]
        /\ InputPlace(vcf.rows[j]) > InputPlace(vcf.rows[i]) + 1

\* C9: a table holding a #CHROM outside 1..22, X, Y, MT is never silently
\* mis-sorted: the call fails, or every such row comes after every row of a
\* valid chromosome.
C9_NoSilentMisSort ==
    order_ret # "none" =>
        \/ order_ret = "ValueError"
        \/ \A i, j \in 1..NRows(vcf) :
              (~ValidChrom(vcf.rows[i]["#CHROM"]) /\ ValidChrom(vcf.rows[j]["#CHROM"]))
                  => j < i

-----------------------------------------------------------------------------
(* merge_vep_variant_files *)

HasColumns(df, names) == names \subseteq Range(df.columns)

\* the positions a mask selects, ascending
RECURSIVE PositionsWhere(_, _)
PositionsWhere(mask, n) ==
    IF n = 0 THEN <<>>
    ELSE IF mask[n] THEN Append(PositionsWhere(mask, n - 1), n)
    ELSE PositionsWhere(mask, n - 1)

\* df.drop(index=labels) : every row carrying one of the labels goes
DropLabels(df, labels) ==
    Take(df, PositionsWhere([i \in 1..NRows(df) |-> df.index[i] \notin labels], NRows(df)))

\* lines 54-57 left out: every annotation row stays
DropNotHGNC_Skipped(df) == df

\* lines 54-57
DropNotHGNC(df) ==
    DropLabels(df, LabelsWhere(df, NeMask(df, "%SYMBOL_SOURCE", StrCell(<<"H", "G", "N", "C">>))))

\* line 59, df.drop_duplicates() : the first of equal rows stays, labels are
\* not compared
drop_duplicates(df) ==
    Take(df, PositionsWhere([i \in 1..NRows(df) |->
                                \A j \in 1..(i - 1) : df.rows[j] # df.rows[i]], NRows(df)))

\* .astype(str) of one cell
CellStr(cell) == IF cell.t = "int" THEN NatToStr(cell.n) ELSE cell.s

\* '_'.join over the cells of the named columns
RECURSIVE JoinCells(_, _)
JoinCells(row, names) ==
    IF Len(names) = 1 THEN CellStr(row[names[1]])
    ELSE CellStr(row[names[1]]) \o <<"_">> \o JoinCells(row, Tail(names))

VepKeyColumns == <<"%CHROM", "%POS", "%REF", "%ALT">>
VariantKeyColumns == <<"#CHROM", "POS", "REF", "ALT">>

\* lines 61-63 and 64-66
WithKey(df, names) ==
    SetColumn(df, "chr_pos_ref_alt",
              [i \in 1..NRows(df) |-> StrCell(JoinCells(df.rows[i], names))])

\* the right rows matching left row i, from right position j on, in order
RECURSIVE MatchesFrom(_, _, _, _)
MatchesFrom(left, right, i, j) ==
    IF j > NRows(right) THEN <<>>
    ELSE (IF left.rows[i]["chr_pos_ref_alt"] = right.rows[j]["chr_pos_ref_alt"]
          THEN <<(<<i, j>>)>> ELSE <<>>) \o MatchesFrom(left, right, i, j + 1)

RECURSIVE PairsFrom(_, _, _)
PairsFrom(left, right, i) ==
    IF i > NRows(left) THEN <<>>
    ELSE MatchesFrom(left, right, i, 1) \o PairsFrom(left, right, i + 1)

\* line 68, left.merge(right, on='chr_pos_ref_alt') : inner join in the
\* order of the left rows, fresh labels 0..n-1 (the two frames share no
\* column name but the key)
InnerMerge(left, right) ==
    LET pairs == PairsFrom(left, right, 1)
    IN  Table([k \in 1..Len(pairs) |-> k - 1],
              left.columns \o SeqWithout(right.columns, {"chr_pos_ref_alt"}),
              [k \in 1..Len(pairs) |->
                  [c \in Range(left.columns) \cup Range(right.columns) |->
                      IF c \in Range(left.columns) THEN left.rows[pairs[k][1]][c]
                      ELSE right.rows[pairs[k][2]][c]]])

\* lines 74-75 labelling everything that is not benign
WithBinarizedLabel_NotBenign(df) ==
    LET zero == SetColumn(df, "binarized_label", [i \in 1..NRows(df) |-> IntCell(0)])
    IN  LocAssign(zero,
                  LabelsWhere(zero, NeMask(zero, "clinsig", StrCell(<<"B">>))),
                  "binarized_label", IntCell(1))

\* lines 74-75
WithBinarizedLabel(df) ==
    LET zero == SetColumn(df, "binarized_label", [i \in 1..NRows(df) |-> IntCell(0)])
    IN  LocAssign(zero,
                  LabelsWhere(zero, EqMask(zero, "clinsig", StrCell(<<"L", "P">>))),
                  "binarized_label", IntCell(1))

\* The whole function: what it returns, how it ended, and the caller's
\* clinical frame as the call leaves it.
merge_vep_variant_files(vep_df, variant_df) ==
    IF ~HasColumns(vep_df, {"%SYMBOL_SOURCE"} \cup Range(VepKeyColumns))
          \/ ~HasColumns(variant_df, Range(VariantKeyColumns))
    THEN [ret |-> "KeyError", merge |-> EmptyTable, variant |-> variant_df]
    ELSE LET vep == WithKey(drop_duplicates(DropNotHGNC(vep_df)), VepKeyColumns)
             variant == WithKey(variant_df, VariantKeyColumns)
             merged == DropColumns(InnerMerge(vep, variant),
                                   {"chr_pos_ref_alt"} \cup Range(VariantKeyColumns))
         IN  IF ~HasColumns(merged, {"clinsig"})
             THEN [ret |-> "KeyError", merge |-> EmptyTable, variant |-> variant]
             ELSE [ret |-> "ok", merge |-> WithBinarizedLabel(merged), variant |-> variant]

-----------------------------------------------------------------------------
(* The tables merge_vep_variant_files is called on *)

MaxVepRows == 2
MaxVariantRows == 2

VepColumns == VepKeyColumns \o <<"%SYMBOL_SOURCE", "%Consequence">>

HGNC == <<"H", "G", "N", "C">>
RefSeq == <<"R", "e", "f", "S", "e", "q">>
Missense == <<"m", "i", "s">>
Synonymous == <<"s", "y", "n">>
LP == <<"L", "P">>
Benign == <<"B">>
VUS == <<"V", "U", "S">>

\* annotation rows as <<%POS, %SYMBOL_SOURCE, %Consequence>>: two positions,
\* both sources, and two rows that differ in the consequence only
VepRowSample == {<<100, HGNC, Missense>>, <<100, HGNC, Synonymous>>, <<100, RefSeq, Missense>>,
                 <<200, HGNC, Missense>>, <<200, RefSeq, Missense>>}

\* clinical rows as <<POS, clinsig>>
VariantRowSample == {<<100, LP>>, <<100, Benign>>, <<100, VUS>>, <<200, LP>>}

\* without a clinsig column only the position tells clinical rows apart
NoClinsigSample == {<<100, LP>>, <<200, LP>>}

VepRow(pos, source, csq) ==
    [c \in Range(VepColumns) |->
        IF c = "%CHROM" THEN IntCell(1)
        ELSE IF c = "%POS" THEN IntCell(pos)
        ELSE IF c = "%REF" THEN StrCell(<<"A">>)
        ELSE IF c = "%ALT" THEN StrCell(<<"T">>)
        ELSE IF c = "%SYMBOL_SOURCE" THEN StrCell(source)
        ELSE StrCell(csq)]

\* the clinical frame, with or without its clinsig column
VariantColumns(withClinsig) ==
    VariantKeyColumns \o (IF withClinsig THEN <<"clinsig">> ELSE <<>>) \o <<"stars">>

VariantRow(columns, pos, clinsig) ==
    [c \in Range(columns) |->
        IF c = "#CHROM" THEN IntCell(1)
        ELSE IF c = "POS" THEN IntCell(pos)
        ELSE IF c = "REF" THEN StrCell(<<"A">>)
        ELSE IF c = "ALT" THEN StrCell(<<"T">>)
        ELSE IF c = "clinsig" THEN StrCell(clinsig)
        ELSE IntCell(1)]

OrderIdle ==
    /\ vcf = EmptyTable
    /\ vcf_in = EmptyTable
    /\ order_ret = "none"

InitMerge ==
    /\ \E n \in 0..MaxVepRows :
         \E idx \in IndexChoices(n), rows \in [1..n -> VepRowSample] :
             vep_dataframe =
                 Table(idx, VepColumns,
                       [i \in 1..n |-> VepRow(rows[i][1], rows[i][2], rows[i][3])])
    /\ \E n \in 0..MaxVariantRows :
         \E withClinsig \in BOOLEAN :
         \E rows \in [1..n -> IF withClinsig THEN VariantRowSample ELSE NoClinsigSample] :
             variant_dataframe =
                 Table([i \in 1..n |-> i - 1], VariantColumns(withClinsig),
                       [i \in 1..n |->
                           VariantRow(VariantColumns(withClinsig), rows[i][1], rows[i][2])])
    /\ vep_in = vep_dataframe
    /\ variant_in = variant_dataframe
    /\ merge = EmptyTable
    /\ merge_ret = "none"
    /\ OrderIdle
    /\ IoIdle

\* a call of merge_vep_variant_files(vep_dataframe, variant_dataframe)
MergeVepVariantFiles ==
    LET out == merge_vep_variant_files(vep_dataframe, variant_dataframe)
    IN  /\ vep_in' = vep_dataframe
        /\ variant_in' = variant_dataframe
        /\ variant_dataframe' = out.variant
        /\ merge' = out.merge
        /\ merge_ret' = out.ret
        /\ UNCHANGED <<vep_dataframe, orderVars, ioVars>>

NextMerge == MergeVepVariantFiles

SpecMerge == InitMerge /\ [][NextMerge]_vars

-----------------------------------------------------------------------------
(* Properties of merge_vep_variant_files *)

Merged == merge_ret = "ok"

\* the distinct annotation rows whose %SYMBOL_SOURCE is "HGNC"
Contributors ==
    {vep_in.rows[i] : i \in {k \in 1..NRows(vep_in) :
                                vep_in.rows[k]["%SYMBOL_SOURCE"] = StrCell(HGNC)}}

\* annotation row a and clinical row j have the same underscore-joined key
KeysEqual(a, j) ==
    JoinCells(a, VepKeyColumns) = JoinCells(variant_in.rows[j], VariantKeyColumns)

\* the clinical columns a merged row carries
KeptClinical(c) == (DOMAIN c) \ (Range(VariantKeyColumns) \cup {"chr_pos_ref_alt"})

\* merged row r is annotation row a joined with clinical row c
RowFor(r, a, c) ==
    /\ (DOMAIN a) \cup KeptClinical(c) \subseteq DOMAIN r
    /\ \A col \in DOMAIN a : r[col] = a[col]
    /\ \A col \in KeptClinical(c) : r[col] = c[col]

\* C4: the result holds exactly one row for every pair of a distinct HGNC
\* annotation row and a clinical row with the same key (all combinations of
\* a shared key), and no other row.
C4_InnerJoin ==
    Merged =>
        /\ \A k \in 1..NRows(merge) :
              \E a \in Contributors, j \in 1..NRows(variant_in) :
                  KeysEqual(a, j) /\ RowFor(merge.rows[k], a, variant_in.rows[j])
        /\ \A a \in Contributors, j \in 1..NRows(variant_in) :
              KeysEqual(a, j) =>
                  Cardinality({k \in 1..NRows(merge) :
                                  RowFor(merge.rows[k], a, variant_in.rows[j])})
                    = Cardinality({j2 \in 1..NRows(variant_in) :
                                      /\ KeysEqual(a, j2)
                                      /\ \A col \in KeptClinical(variant_in.rows[j]) :
                                            variant_in.rows[j2][col] = variant_in.rows[j][col]})

\* a merge that returned several rows although a non-HGNC annotation row had
\* a key matching a clinical row
C4_Witness ==
    /\ Merged
    /\ NRows(merge) > 1
    /\ \E i \in 1..NRows(vep_in), j \in 1..NRows(variant_in) :
          /\ vep_in.rows[i]["%SYMBOL_SOURCE"] # StrCell(HGNC)
          /\ KeysEqual(vep_in.rows[i], j)

Occurrences(seq, x) == Cardinality({i \in 1..Len(seq) : seq[i] = x})

\* C5: every returned row has exactly one binarized_label, 1 if its clinsig is
\* "LP" and 0 otherwise, and the result has neither the key column nor the
\* clinical #CHROM, POS, REF, ALT columns.
C5_BinarizedLabel ==
    Merged =>
        /\ Occurrences(merge.columns, "binarized_label") = 1
        /\ Range(merge.columns) \cap (Range(VariantKeyColumns) \cup {"chr_pos_ref_alt"}) = {}
        /\ \A k \in 1..NRows(merge) :
              /\ DOMAIN merge.rows[k] = Range(merge.columns)
              /\ merge.rows[k]["binarized_label"] =
                    IF merge.rows[k]["clinsig"] = StrCell(LP) THEN IntCell(1) ELSE IntCell(0)

\* a result with a row labelled 1 and a row labelled 0 whose clinsig is "VUS"
C5_Witness ==
    /\ Merged
    /\ \E k \in 1..NRows(merge) : merge.rows[k]["binarized_label"] = IntCell(1)
    /\ \E k \in 1..NRows(merge) :
          /\ merge.rows[k]["clinsig"] = StrCell(VUS)
          /\ merge.rows[k]["binarized_label"] = IntCell(0)

\* C8: both inputs are read-only: after the call (returned or failed) the
\* caller's annotation table and clinical table are as they were before it.
C8_InputsUnchanged ==
    merge_ret # "none" =>
        /\ vep_dataframe = vep_in
        /\ variant_dataframe = variant_in

-----------------------------------------------------------------------------
(* Text files.  A gzip file is modelled by its decompressed text: writing   *)
(* with 'wt' replaces the text, appending a gzip member appends to it.  In  *)
(* the frames a file is parsed into, column names are texts.                *)

StartsWith(s, prefix) == Len(s) >= Len(prefix) /\ SubSeq(s, 1, Len(prefix)) = prefix

EndsWith(s, suffix) ==
    Len(s) >= Len(suffix) /\ SubSeq(s, Len(s) - Len(suffix) + 1, Len(s)) = suffix

First(set) == CHOOSE i \in set : \A j \in set : i <= j

Latest(set) == CHOOSE i \in set : \A j \in set : i >= j

\* iterating over a text file: the lines, each with its "\n" (the last line
\* may have none)
RECURSIVE SplitLines(_)
SplitLines(text) ==
    IF text = <<>> THEN <<>>
    ELSE LET nl == {i \in 1..Len(text) : text[i] = "\n"}
         IN  IF nl = {} THEN <<text>>
             ELSE <<SubSeq(text, 1, First(nl))>>
                      \o SplitLines(SubSeq(text, First(nl) + 1, Len(text)))

StripNewline(line) ==
    IF EndsWith(line, <<"\n">>) THEN SubSeq(line, 1, Len(line) - 1) ELSE line

\* the fields of a line, sep='\t'
RECURSIVE SplitTabs(_)
SplitTabs(line) ==
    LET tabs == {i \in 1..Len(line) : line[i] = "\t"}
    IN  IF tabs = {} THEN <<line>>
        ELSE <<SubSeq(line, 1, First(tabs) - 1)>>
                 \o SplitTabs(SubSeq(line, First(tabs) + 1, Len(line)))

RECURSIVE Concat(_)
Concat(texts) == IF texts = <<>> THEN <<>> ELSE Head(texts) \o Concat(Tail(texts))

RECURSIVE JoinWith(_, _)
JoinWith(texts, sep) ==
    IF texts = <<>> THEN <<>>
    ELSE IF Len(texts) = 1 THEN texts[1]
    ELSE texts[1] \o sep \o JoinWith(Tail(texts), sep)

NaNCell == [t |-> "nan", n |-> 0, s |-> <<>>]
FloatCell(n) == [t |-> "float", n |-> n, s |-> <<>>]

\* the dtype read_csv gives a column: int64 when every field is a number,
\* float64 when the others are empty, else object with NaN for empty fields
InferColumn(texts) ==
    IF \A k \in 1..Len(texts) : AllDigits(texts[k])
    THEN [k \in 1..Len(texts) |-> IntCell(DigitsToNat(texts[k]))]
    ELSE IF \A k \in 1..Len(texts) : AllDigits(texts[k]) \/ texts[k] = <<>>
    THEN [k \in 1..Len(texts) |->
             IF texts[k] = <<>> THEN NaNCell ELSE FloatCell(DigitsToNat(texts[k]))]
    ELSE [k \in 1..Len(texts) |->
             IF texts[k] = <<>> THEN NaNCell ELSE StrCell(texts[k])]

\* how to_csv writes a cell (no field of the model needs quoting)
CellText(cell) ==
    IF cell.t = "int" THEN NatToStr(cell.n)
    ELSE IF cell.t = "float" THEN NatToStr(cell.n) \o <<".", "0">>
    ELSE IF cell.t = "nan" THEN <<>>
    ELSE cell.s

-----------------------------------------------------------------------------
(* SimpleVCFParser *)

Marker == <<"#", "#">>

\* lines 103-110
RECURSIVE LeadingHeader(_)
LeadingHeader(lines) ==
    IF lines = <<>> \/ ~StartsWith(Head(lines), Marker) THEN <<>>
    ELSE <<Head(lines)>> \o LeadingHeader(Tail(lines))

read_header(text) == LeadingHeader(SplitLines(text))

IsBlank(line) == StripNewline(line) = <<>>

NotBlank(line) == ~IsBlank(line)

PadTo(fields, width) == fields \o [j \in 1..(width - Len(fields)) |-> <<>>]

\* lines 113-115, pd.read_csv(infile, sep='\t', skiprows=n): the first n
\* lines are skipped, then blank lines are skipped (skip_blank_lines), the
\* first line left names the columns and the others are the rows.  Fields
\* of the first row beyond the names are row labels; a row with more
\* fields than that is an error, one with fewer is padded with NaN.
read_csv(text, skiprows) ==
    LET lines == SplitLines(text)
        rest == SelectSeq(SubSeq(lines, skiprows + 1, Len(lines)), NotBlank)
    IN  IF rest = <<>> THEN [ret |-> "EmptyDataError", data |-> EmptyTable]
        ELSE
        LET names == SplitTabs(StripNewline(rest[1]))
            n == Len(rest) - 1
            fields == [k \in 1..n |-> SplitTabs(StripNewline(rest[k + 1]))]
            leading == IF n = 0 \/ Len(fields[1]) <= Len(names) THEN 0
                       ELSE Len(fields[1]) - Len(names)
            width == Len(names) + leading
            column == [j \in 1..width |->
                          InferColumn([k \in 1..n |-> PadTo(fields[k], width)[j]])]
        IN  IF \E k \in 1..n : Len(fields[k]) > width
            THEN [ret |-> "ParserError", data |-> EmptyTable]
            ELSE [ret |-> "ok",
                  data |-> Table(IF leading = 0 THEN [k \in 1..n |-> k - 1]
                                 ELSE [k \in 1..n |-> [j \in 1..leading |-> column[j][k]]],
                                 names,
                                 [k \in 1..n |->
                                     [c \in Range(names) |->
                                         column[leading + First({j \in 1..Len(names) : names[j] = c})][k]]])]

Home == <<"/", "h">>

\* os.path.expanduser for a path that starts with "~/"
expanduser(path) == Home \o Tail(path)

\* lines 99-101 and 172-173
check_tilde(path) == IF StartsWith(path, <<"~">>) THEN expanduser(path) ELSE path

\* lines 81-97, SimpleVCFParser(vcf_file): the header and data of the new
\* parser, or the exception that ends the constructor
SimpleVCFParser(fs, vcf_file) ==
    IF vcf_file = <<>> THEN [ret |-> "ok", header |-> <<>>, data |-> EmptyTable]
    ELSE LET infile == check_tilde(vcf_file)
         IN  IF infile \notin DOMAIN fs
             THEN [ret |-> "FileNotFoundError", header |-> <<>>, data |-> EmptyTable]
             ELSE LET hdr == read_header(fs[infile])
                      csv == read_csv(fs[infile], Len(hdr))
                  IN  [ret |-> csv.ret, header |-> hdr, data |-> csv.data]

\* df.to_csv(sep='\t', index=False): the column names, then the rows
to_csv(df) ==
    JoinWith(df.columns, <<"\t">>) \o <<"\n">>
      \o Concat([k \in 1..NRows(df) |->
                    JoinWith([j \in 1..Len(df.columns) |-> CellText(df.rows[k][df.columns[j]])],
                             <<"\t">>) \o <<"\n">>])

\* os.path.dirname
dirname(path) ==
    LET slashes == {i \in 1..Len(path) : path[i] = "/"}
    IN  IF slashes = {} THEN <<>>
        ELSE IF Latest(slashes) = 1 THEN <<"/">>
        ELSE SubSeq(path, 1, Latest(slashes) - 1)

\* os.path.exists
exists(fs, ds, path) == path \in ds \/ path \in DOMAIN fs

\* os.makedirs creates the directory and the missing ones above it
makedirs(ds, path) ==
    ds \cup {path} \cup {SubSeq(path, 1, i - 1) : i \in {j \in 2..Len(path) : path[j] = "/"}}

GzSuffix == <<".", "g", "z">>

\* lines 174-183: the file system after the directory is made, the header
\* written to a fresh file and the table appended
WriteOut(hdr, df, fs, ds, file_loc) ==
    LET ds2 == IF exists(fs, ds, dirname(file_loc)) THEN ds ELSE makedirs(ds, dirname(file_loc))
        path == IF EndsWith(file_loc, GzSuffix) THEN file_loc ELSE file_loc \o GzSuffix
        text == Concat(hdr) \o to_csv(df)
    IN  [ret |-> "ok", dirs |-> ds2, path |-> path,
         files |-> [q \in (DOMAIN fs) \cup {path} |-> IF q = path THEN text ELSE fs[q]]]

\* export with the check of line 169 made only after the directory of
\* lines 174-177 exists
export_LateCheck(hdr, df, fs, ds, file_loc) ==
    LET out == WriteOut(hdr, df, fs, ds, check_tilde(file_loc))
    IN  IF NRows(df) = 0 \/ Len(hdr) = 0
        THEN [ret |-> "ValueError", dirs |-> out.dirs, files |-> fs, path |-> <<>>]
        ELSE out

\* lines 169-184, export(file_loc): how it ended and the file system after
export(hdr, df, fs, ds, file_loc) ==
    IF NRows(df) = 0 \/ Len(hdr) = 0
    THEN [ret |-> "ValueError", dirs |-> ds, files |-> fs, path |-> <<>>]
    ELSE LET loc == check_tilde(file_loc)
         IN  IF ~exists(fs, ds, dirname(loc)) /\ dirname(loc) = <<>>
             THEN [ret |-> "FileNotFoundError", dirs |-> ds, files |-> fs, path |-> <<>>]
             ELSE WriteOut(hdr, df, fs, ds, loc)

-----------------------------------------------------------------------------
(* Building a document by hand, exporting it and reading the file back *)

MaxHeaderLines == 2
MaxDataRows == 2

\* header lines as a file yields them (with their terminator) and as
\* pseudo_header lists them (without)
HeaderLineSample == {<<"#", "#", "a", "\n">>, <<"#", "#", "b", "\n">>, <<"#", "#", "a">>}

DataColumns == <<(<<"#", "C">>), (<<"P">>)>>

\* rows as <<#C, P>>
DataRowSample == {<<StrCell(<<"X">>), IntCell(5)>>, <<StrCell(<<"2">>), IntCell(9)>>}

DataRow(cells) == [c \in Range(DataColumns) |-> IF c = DataColumns[1] THEN cells[1] ELSE cells[2]]

\* export targets: in an existing directory with and without ".gz", in a
\* directory still to be made, under "~", and a bare file name
ExportPaths == {<<"d", "/", "f", ".", "g", "z">>, <<"d", "/", "f">>, <<"n", "/", "f">>,
                <<"~", "/", "f">>, <<"f">>}

ExistingDirs == {<<"d">>, Home, <<"/">>}

OthersIdle == OrderIdle /\ MergeIdle

\* a parser made by SimpleVCFParser('') on a file system without files
InitExport ==
    /\ header = <<>>
    /\ data = EmptyTable
    /\ files = NoFiles
    /\ dirs = ExistingDirs
    /\ io_ret = "ok"
    /\ last = NoCall
    /\ OthersIdle

\* parser.header = [...] before anything is exported
SetHeader ==
    /\ last.op = "none"
    /\ \E n \in 0..MaxHeaderLines : \E h \in [1..n -> HeaderLineSample] : header' = h
    /\ UNCHANGED <<data, files, dirs, io_ret, last, orderVars, mergeVars>>

\* lines 129-152, parser.data = DataFrame before anything is exported
SetData ==
    /\ last.op = "none"
    /\ \E n \in 0..MaxDataRows : \E rows \in [1..n -> DataRowSample] :
           data' = Table([i \in 1..n |-> i - 1], DataColumns, [i \in 1..n |-> DataRow(rows[i])])
    /\ UNCHANGED <<header, files, dirs, io_ret, last, orderVars, mergeVars>>

\* parser.export(file_loc)
Export ==
    /\ last.op = "none"
    /\ \E file_loc \in ExportPaths :
         LET out == export(header, data, files, dirs, file_loc)
         IN  /\ files' = out.files
             /\ dirs' = out.dirs
             /\ io_ret' = out.ret
             /\ last' = [op |-> "export", path |-> out.path, header |-> header,
                         data |-> data, files |-> files, dirs |-> dirs]
    /\ UNCHANGED <<header, data, orderVars, mergeVars>>

\* SimpleVCFParser(path) on the file the export wrote
ReadBack ==
    /\ last.op = "export"
    /\ io_ret = "ok"
    /\ LET new == SimpleVCFParser(files, last.path)
       IN  /\ header' = new.header
           /\ data' = new.data
           /\ io_ret' = new.ret
    /\ last' = [last EXCEPT !.op = "readback"]
    /\ UNCHANGED <<files, dirs, orderVars, mergeVars>>

NextExport == SetHeader \/ SetData \/ Export \/ ReadBack

SpecExport == InitExport /\ [][NextExport]_vars

\* C6: a document with a non-empty header and at least one row, exported and
\* read back from the written file, comes back with the same header lines
\* and a table with the same column names and the same row values in order.
C6_RoundTrip ==
    last.op = "readback" =>
        /\ io_ret = "ok"
        /\ header = last.header
        /\ data.columns = last.data.columns
        /\ data.rows = last.data.rows

\* C7: export of a document with no rows or no header lines fails before the
\* file system is touched: no file, no directory, document unchanged.
C7_ExportPrecondition ==
    (last.op = "export" /\ (NRows(last.data) = 0 \/ Len(last.header) = 0)) =>
        /\ io_ret = "ValueError"
        /\ files = last.files
        /\ dirs = last.dirs
        /\ header = last.header
        /\ data = last.data

\* an export was refused for a document that has rows but no header line
C7_Witness ==
    /\ last.op = "export"
    /\ io_ret = "ValueError"
    /\ NRows(last.data) > 0
    /\ Len(last.header) = 0

-----------------------------------------------------------------------------
(* Reading a file *)

MaxLines == 4

\* header lines, a line of column names, data lines and a blank line
FileLineSample == {<<"#", "#", "a", "\n">>, <<"#", "#", "b", "\n">>,
                   <<"#", "C", "\t", "P", "\n">>,
                   <<"2", "\t", "5", "\n">>, <<"X", "\t", "9", "\n">>,
                   <<"\n">>}

InPath == <<"d", "/", "i", "n", ".", "g", "z">>
MissingPath == <<"d", "/", "n", "o", ".", "g", "z">>

InitRead ==
    /\ header = <<>>
    /\ data = EmptyTable
    /\ \E n \in 0..MaxLines : \E lines \in [1..n -> FileLineSample] :
           files = [q \in {InPath} |-> Concat(lines)]
    /\ dirs = ExistingDirs
    /\ io_ret = "none"
    /\ last = NoCall
    /\ OthersIdle

\* parser = SimpleVCFParser(vcf_file)
Construct ==
    /\ last.op = "none"
    /\ \E vcf_file \in {InPath, MissingPath} :
         LET new == SimpleVCFParser(files, vcf_file)
         IN  /\ header' = new.header
             /\ data' = new.data
             /\ io_ret' = new.ret
             /\ last' = [op |-> "read", path |-> vcf_file, header |-> header,
                         data |-> data, files |-> files, dirs |-> dirs]
    /\ UNCHANGED <<files, dirs, orderVars, mergeVars>>

NextRead == Construct

SpecRead == InitRead /\ [][NextRead]_vars

\* the lines of the file the parser was made from
FileLines == SplitLines(files[last.path])

\* the length of the leading run of "##" lines
LeadingRun ==
    Latest({k \in 0..Len(FileLines) : \A i \in 1..k : StartsWith(FileLines[i], Marker)})

\* the cell is the value of the field: the number it spells, its text, or
\* NaN for an empty field
IsField(cell, text) ==
    \/ cell.t \in {"int", "float"} /\ AllDigits(text) /\ cell.n = DigitsToNat(text)
    \/ cell.t = "str" /\ cell.s = text
    \/ cell.t = "nan" /\ text = <<>>

\* C10: the header is the leading run of "##" lines, verbatim and in order;
\* the first other line supplies the column names; every later line is a row
\* of the table, in file order, none dropped.
C10_ReadSplit ==
    (last.op = "read" /\ io_ret = "ok") =>
        /\ header = SubSeq(FileLines, 1, LeadingRun)
        /\ data.columns = SplitTabs(StripNewline(FileLines[LeadingRun + 1]))
        /\ NRows(data) = Len(FileLines) - LeadingRun - 1
        /\ \A k \in 1..NRows(data) : \A j \in 1..Len(data.columns) :
              IsField(data.rows[k][data.columns[j]],
                      PadTo(SplitTabs(StripNewline(FileLines[LeadingRun + 1 + k])),
                            Len(data.columns))[j])

====
